---- MODULE Spec2Model ----
(***************************************************************************)
(* Model of opendlv-device-ps3controller: a sampler thread that drains     *)
(* joystick events into a mutex-protected (acceleration, steering,         *)
(* hasError) triple, and a main thread that publishes that triple at a     *)
(* fixed frequency and sends a stop command when the publish loop ends.    *)
(***************************************************************************)
EXTENDS Integers, Sequences, FiniteSets, TLC

(***************************************************************************)
(* IEEE-754 binary32 arithmetic, as the C++ float expressions of the       *)
(* sampler evaluate it (round to nearest, ties to even; every operation    *)
(* rounded to single precision).  A float is a record [s, m, e] standing   *)
(* for (-1)^s * m * 2^e with m = 0 (and e = 0) or 2^23 <= m < 2^24.  The   *)
(* values the program computes stay far from the subnormal and overflow    *)
(* ranges, which are not modelled.                                         *)
(***************************************************************************)
RECURSIVE Pow2(_)
Pow2(n) == IF n = 0 THEN 1 ELSE 2 * Pow2(n - 1)

TwoP12 == Pow2(12)

TwoP22 == Pow2(22)

TwoP23 == Pow2(23)

TwoP24 == Pow2(24)

F(s, m, e) == [s |-> s, m |-> m, e |-> e]

FZero == F(0, 0, 0)

FNegZero == F(1, 0, 0)

IsZero(x) == x.m = 0

\* Number of bits of a positive integer.
RECURSIVE BitLen(_)
BitLen(n) == IF n = 0 THEN 0 ELSE 1 + BitLen(n \div 2)

\* Round the exact value (-1)^s * (M + t) * 2^E, where 0 <= t < 1 and
\* sticky <=> t > 0, to the nearest float (ties to even).  With sticky set,
\* M carries at least 26 bits.
FRound(s, M, E, sticky) ==
    IF M = 0 THEN F(s, 0, 0)
    ELSE LET n == BitLen(M)
         IN IF n <= 24
            THEN F(s, M * Pow2(24 - n), E - (24 - n))
            ELSE LET k    == n - 24
                     q    == M \div Pow2(k)
                     rem  == M % Pow2(k)
                     half == Pow2(k - 1)
                     up   == \/ rem > half
                             \/ rem = half /\ sticky
                             \/ rem = half /\ ~sticky /\ q % 2 = 1
                     r    == IF up THEN q + 1 ELSE q
                 IN IF r = TwoP24 THEN F(s, TwoP23, E + k + 1)
                                  ELSE F(s, r, E + k)

\* static_cast<float>(n) for an integer of magnitude below 2^24 (exact).
FromInt(n) == IF n < 0 THEN FRound(1, 0 - n, 0, FALSE) ELSE FRound(0, n, 0, FALSE)

FNeg(x) == F(1 - x.s, x.m, x.e)

\* x * y
FMul(x, y) ==
    LET s == (x.s + y.s) % 2
    IN IF IsZero(x) \/ IsZero(y) THEN F(s, 0, 0)
       ELSE LET a1  == x.m \div TwoP12
                b1  == x.m % TwoP12
                a2  == y.m \div TwoP12
                b2  == y.m % TwoP12
                mid == a1 * b2 + a2 * b1
                t   == b1 * b2 + (mid % TwoP12) * TwoP12
                lo  == t % TwoP24
                hi  == a1 * a2 + mid \div TwoP12 + t \div TwoP24
            IN FRound(s, hi * 4 + lo \div TwoP22, x.e + y.e + 22, lo % TwoP22 # 0)

\* Long division: <<quotient, remainder>> of (q * d + r) * 2^n by d.
RECURSIVE DivBits(_, _, _, _)
DivBits(q, r, d, n) ==
    IF n = 0 THEN <<q, r>>
    ELSE IF 2 * r >= d THEN DivBits(2 * q + 1, 2 * r - d, d, n - 1)
                       ELSE DivBits(2 * q, 2 * r, d, n - 1)

DivFracBits == 26

\* x / y, y nonzero
FDiv(x, y) ==
    LET s == (x.s + y.s) % 2
    IN IF IsZero(x) THEN F(s, 0, 0)
       ELSE LET qr == DivBits(x.m \div y.m, x.m % y.m, y.m, DivFracBits)
            IN FRound(s, qr[1], x.e - y.e - DivFracBits, qr[2] # 0)

\* |x| >= |y| for nonzero normalised x, y
MagGeq(x, y) == x.e > y.e \/ (x.e = y.e /\ x.m >= y.m)

\* x + y
FAdd(x, y) ==
    IF IsZero(x) /\ IsZero(y) THEN (IF x.s = 1 /\ y.s = 1 THEN FNegZero ELSE FZero)
    ELSE IF IsZero(x) THEN y
    ELSE IF IsZero(y) THEN x
    ELSE LET big   == IF MagGeq(x, y) THEN x ELSE y
             small == IF MagGeq(x, y) THEN y ELSE x
             d     == big.e - small.e
             B     == big.m * 8
             S0    == small.m * 8
             \* small shifted right by d bits, the lost bits jammed into bit 0
             S     == IF d = 0 THEN S0
                      ELSE IF d > 27 THEN 1
                      ELSE (S0 \div Pow2(d)) +
                           (IF S0 % Pow2(d) # 0 /\ (S0 \div Pow2(d)) % 2 = 0 THEN 1 ELSE 0)
         IN IF big.s = small.s
            THEN FRound(big.s, B + S, big.e - 3, FALSE)
            ELSE IF B = S THEN FZero
                 ELSE FRound(big.s, B - S, big.e - 3, FALSE)

FSub(x, y) == FAdd(x, FNeg(y))

\* x < y
FLess(x, y) ==
    IF IsZero(x) /\ IsZero(y) THEN FALSE
    ELSE IF IsZero(x) THEN y.s = 0
    ELSE IF IsZero(y) THEN x.s = 1
    ELSE IF x.s # y.s THEN x.s = 1
    ELSE IF x.s = 0 THEN ~MagGeq(x, y)
    ELSE ~MagGeq(y, x)

\* ::roundf(x): nearest integer, halfway cases away from zero; keeps the sign
\* of a zero result.
Roundf(x) ==
    IF IsZero(x) \/ x.e >= 0 THEN x
    ELSE LET k == 0 - x.e
         IN IF k > 24 THEN F(x.s, 0, 0)
            ELSE LET q   == x.m \div Pow2(k)
                     rem == x.m % Pow2(k)
                     r   == IF rem >= Pow2(k - 1) THEN q + 1 ELSE q
                 IN FRound(x.s, r, 0, FALSE)


(***************************************************************************)
(* Constants of the program and of <linux/joystick.h>.                     *)
(***************************************************************************)
MIN_AXES_VALUE == -32768

MAX_AXES_VALUE == 32767

JS_EVENT_BUTTON == 1

JS_EVENT_AXIS == 2

JS_EVENT_INIT == 128

F100 == FromInt(100)

F2 == FromInt(2)

F4 == FromInt(4)

FMinus1 == FromInt(-1)

\* the literal 0.001f
F0001 == FDiv(FromInt(1), FromInt(1000))

\* js.type & ~JS_EVENT_INIT on the __u8 type field
StripInit(type) == type - ((type \div JS_EVENT_INIT) % 2) * JS_EVENT_INIT

\* MAX_AXES_VALUE - MIN_AXES_VALUE: uint32_t minus int32_t, computed modulo 2^32;
\* the difference 65535 lies in the range of uint32_t, so nothing wraps.
AxesSpan == MAX_AXES_VALUE - MIN_AXES_VALUE

\* percent over the whole range of the axis
Percent(value) ==
    FMul(FDiv(FromInt(value - MIN_AXES_VALUE), FromInt(AxesSpan)), F100)

\* Quantize without the clamp
Quantize_NoClamp(x) == FDiv(Roundf(FMul(F4, x)), F4)

\* "modify in steps of 0.25" followed by the clamp that avoids showing "-0"
Quantize(x) ==
    LET q == FDiv(Roundf(FMul(F4, x)), F4)
    IN IF FLess(q, F0001) /\ FLess(FNeg(F0001), q) THEN FZero ELSE q

\* LEFT ANALOG STICK, mapped to the range and negated, before the quantisation
SteeringRaw(cfg, value) ==
    LET mapped == FAdd(FMul(FDiv(Percent(value), F100),
                            FSub(cfg.STEERING_MAX, cfg.STEERING_MIN)),
                       cfg.STEERING_MIN)
    IN FMul(mapped, FMinus1)

\* LEFT ANALOG STICK: the steering written for raw value `value`
SteeringOf(cfg, value) == Quantize(SteeringRaw(cfg, value))

\* AccelerationRaw with the percentage not doubled
AccelerationRaw_NotDoubled(cfg, value) ==
    IF value < 0
    THEN FAdd(FMul(FDiv(FSub(F100, Percent(value)), F100),
                   FSub(cfg.ACCELERATION_MAX, cfg.ACCELERATION_MIN)),
              cfg.ACCELERATION_MIN)
    ELSE FMul(FDiv(FSub(Percent(value), F100), F100),
              FSub(cfg.DECELERATION_MAX, cfg.DECELERATION_MIN))

\* RIGHT ANALOG STICK, before the quantisation
AccelerationRaw(cfg, value) ==
    IF value < 0
    THEN FAdd(FMul(FDiv(FSub(F100, FMul(F2, Percent(value))), F100),
                   FSub(cfg.ACCELERATION_MAX, cfg.ACCELERATION_MIN)),
              cfg.ACCELERATION_MIN)
    ELSE FMul(FDiv(FSub(FMul(F2, Percent(value)), F100), F100),
              FSub(cfg.DECELERATION_MAX, cfg.DECELERATION_MIN))

\* RIGHT ANALOG STICK: the acceleration written for raw value `value`
AccelerationOf(cfg, value) == Quantize(AccelerationRaw(cfg, value))

\* AccelAxis with the indices of the two controller families exchanged
AccelAxis_Swapped(cfg) == IF ~cfg.IS_PS4 THEN 5 ELSE 4

\* the raw axis index of the right analog stick
AccelAxis(cfg) == IF ~cfg.IS_PS4 THEN 4 ELSE 5

\* ProcessEvent with an event of one stick resetting the value of the other
ProcessEvent_ResetsOther(cfg, js, acc, st) ==
    IF StripInit(js.type) = JS_EVENT_AXIS
    THEN IF js.number = 0 THEN <<FZero, SteeringOf(cfg, js.value)>>
         ELSE IF js.number = AccelAxis(cfg)
         THEN <<AccelerationOf(cfg, js.value), FZero>>
         ELSE <<acc, st>>
    ELSE <<acc, st>>

\* Body of the drain loop for one js_event: the new <<acceleration, steering>>.
ProcessEvent(cfg, js, acc, st) ==
    IF StripInit(js.type) = JS_EVENT_AXIS
    THEN LET st1  == IF js.number = 0 THEN SteeringOf(cfg, js.value) ELSE st
             acc1 == IF js.number = AccelAxis(cfg)
                     THEN AccelerationOf(cfg, js.value) ELSE acc
         IN <<acc1, st1>>
    ELSE <<acc, st>>


(***************************************************************************)
(* Bounds of the model.                                                    *)
(***************************************************************************)
\* js_events the device produces in one run
MaxEvents == 2

\* commands the publish loop sends in one run (the stop command is extra)
MaxTicks == 2

(***************************************************************************)
(* Inputs.                                                                 *)
(***************************************************************************)
\* a command line value n/d as std::stof returns it
Q(n, d) == FDiv(FromInt(n), FromInt(d))

Config(amin, amax, dmin, dmax, smin, smax, ps4) ==
    [ACCELERATION_MIN |-> amin, ACCELERATION_MAX |-> amax,
     DECELERATION_MIN |-> dmin, DECELERATION_MAX |-> dmax,
     STEERING_MIN |-> smin, STEERING_MAX |-> smax, IS_PS4 |-> ps4]

\* the example of the usage message
ExampleConfig(ps4) ==
    Config(Q(0, 1), Q(50, 1), Q(0, 1), Q(-10, 1), Q(-10, 1), Q(10, 1), ps4)

JsEvent(type, number, value) == [type |-> type, number |-> number, value |-> value]

\* events of the concurrent runs: the left stick at either end, the right
\* stick fully pulled
RunEvents ==
    {JsEvent(JS_EVENT_AXIS, 0, MIN_AXES_VALUE),
     JsEvent(JS_EVENT_AXIS, 0, MAX_AXES_VALUE),
     JsEvent(JS_EVENT_AXIS, 4, MIN_AXES_VALUE)}

(***************************************************************************)
(* State.                                                                  *)
(***************************************************************************)
VARIABLES
    cfg,               \* the parsed command line (ranges, IS_PS4)
    mainPc,            \* position of main
    retCode,           \* main's retCode
    ps3controllerDevice, \* "unset", "failed" (-1), "open" or "closed"
    devQueue,          \* js_events pending in the device, each with the
                       \* number of the publish tick it arrived after
    devGone,           \* the device fails every read (unplugged)
    valuesMutex,       \* holder of valuesMutex: "free", "sampler" or "main"
    acceleration,
    steering,
    hasError,
    samplerPc,         \* position of ps3controllerReadingThread
    joinable,          \* ps3controllerReadingThread.joinable()
    errno,             \* errno of the sampler thread
    od4,               \* the OD4Session: "none", "running" or "down"
    ar,                \* the ActuationRequest of main
    sent,              \* the messages od4 has sent, oldest first
    delegateIsRunning, \* last value returned by the timeTrigger delegate
    isTerminated,      \* termination of the process has been requested
    readFailed,        \* history: a read has failed with errno other than EAGAIN
    drained            \* history: the js_events the sampler has processed, each
                       \* with the ticks it arrived after and was processed after

vars == <<cfg, mainPc, retCode, ps3controllerDevice, devQueue, devGone,
          valuesMutex, acceleration, steering, hasError, samplerPc, joinable,
          errno, od4, ar, sent, delegateIsRunning, isTerminated, readFailed,
          drained>>

devVars == <<devQueue, devGone>>

sharedVars == <<valuesMutex, acceleration, steering, hasError>>

samplerVars == <<samplerPc, errno, readFailed, drained>>

mainVars == <<mainPc, retCode, ps3controllerDevice, joinable, od4, ar, sent,
              delegateIsRunning>>

Request(a, s, v) == [acceleration |-> a, steering |-> s, isValid |-> v]

\* a sent message: the request, the statement that sent it ("tick" or
\* "stop"), and whether a read had failed before it was sent
Message(req, by) == [req |-> req, by |-> by, afterFailure |-> readFailed]

ProcessAlive == mainPc \notin {"exited", "aborted"}

\* the number of publish ticks that have taken the lock so far
Epoch == Len(sent) + (IF mainPc \in {"copy", "send"} THEN 1 ELSE 0)

Init ==
    /\ cfg = ExampleConfig(FALSE)
    /\ mainPc = "args"
    /\ retCode = 0
    /\ ps3controllerDevice = "unset"
    /\ devQueue = <<>>
    /\ devGone = FALSE
    /\ valuesMutex = "free"
    /\ acceleration = FZero
    /\ steering = FZero
    /\ hasError = FALSE
    /\ samplerPc = "unborn"
    /\ joinable = FALSE
    /\ errno = "0"
    /\ od4 = "none"
    /\ ar = Request(FZero, FZero, FALSE)
    /\ sent = <<>>
    /\ delegateIsRunning = TRUE
    /\ isTerminated = FALSE
    /\ readFailed = FALSE
    /\ drained = <<>>

(***************************************************************************)
(* The environment: the joystick device and the termination request.       *)
(***************************************************************************)
\* the device queues the js_event js
Arrive(js) ==
    /\ ProcessAlive /\ ps3controllerDevice = "open" /\ ~devGone
    /\ Len(devQueue) + Len(drained) < MaxEvents
    /\ devQueue' = Append(devQueue, [js |-> js, arrived |-> Epoch])
    /\ UNCHANGED <<cfg, devGone, sharedVars, samplerVars, mainVars, isTerminated>>

DeviceEvent == \E js \in RunEvents : Arrive(js)

\* the device disappears: every later read fails with ENODEV
DeviceUnplug ==
    /\ ProcessAlive /\ ps3controllerDevice = "open" /\ ~devGone
    /\ devGone' = TRUE
    /\ UNCHANGED <<cfg, devQueue, sharedVars, samplerVars, mainVars, isTerminated>>

InPublishLoop == mainPc \in {"delegate", "copy", "send", "ret", "loop"}

\* the process is asked to terminate while timeTrigger runs
Terminate ==
    /\ InPublishLoop /\ ~isTerminated
    /\ isTerminated' = TRUE
    /\ UNCHANGED <<cfg, devVars, sharedVars, samplerVars, mainVars>>

(***************************************************************************)
(* ps3controllerReadingThread.                                             *)
(***************************************************************************)
samplerFrame == <<cfg, mainVars, isTerminated>>

\* SamplerSelect with a loop that never tests hasError: while (true)
SamplerSelect_NoErrorTest ==
    /\ ProcessAlive /\ samplerPc = "select"
    /\ IF ps3controllerDevice # "open"
       THEN samplerPc' = "lock" /\ errno' = "EBADF"
       ELSE /\ samplerPc' = IF devQueue # <<>> \/ devGone THEN "lock" ELSE "select"
            /\ errno' = errno
    /\ UNCHANGED <<samplerFrame, devVars, sharedVars, readFailed, drained>>

\* while (!hasError) { ::select(...); if (FD_ISSET(...)) ... }: the loop is
\* left once hasError is set; otherwise the descriptor is reported when an
\* event is pending or the device is gone; on a closed descriptor select
\* fails with EBADF and leaves the descriptor in the set; otherwise select
\* times out and the loop goes round.
SamplerSelect ==
    /\ ProcessAlive /\ samplerPc = "select"
    /\ IF hasError
       THEN samplerPc' = "done" /\ errno' = errno
       ELSE IF ps3controllerDevice # "open"
       THEN samplerPc' = "lock" /\ errno' = "EBADF"
       ELSE /\ samplerPc' = IF devQueue # <<>> \/ devGone THEN "lock" ELSE "select"
            /\ errno' = errno
    /\ UNCHANGED <<samplerFrame, devVars, sharedVars, readFailed, drained>>

\* SamplerLock without the lock_guard: the drain starts at once
SamplerLock_NoMutex ==
    /\ ProcessAlive /\ samplerPc = "lock"
    /\ samplerPc' = "read"
    /\ UNCHANGED <<samplerFrame, devVars, sharedVars, errno, readFailed, drained>>

\* std::lock_guard<std::mutex> lck(valuesMutex)
SamplerLock ==
    /\ ProcessAlive /\ samplerPc = "lock"
    /\ valuesMutex = "free"
    /\ valuesMutex' = "sampler"
    /\ samplerPc' = "read"
    /\ UNCHANGED <<samplerFrame, devVars, acceleration, steering, hasError, errno,
                   readFailed, drained>>

\* the outcome of ::read on the non-blocking descriptor: "event", or the
\* errno of a failed read (a joystick device never reads as end of file)
ReadOutcome ==
    IF ps3controllerDevice # "open" THEN "EBADF"
    ELSE IF devGone THEN "ENODEV"
    ELSE IF devQueue # <<>> THEN "event"
    ELSE "EAGAIN"

\* ErrnoCheck testing errno against 0 instead of EAGAIN
ErrnoCheck_NonZero(e) == hasError \/ e # "0"

\* if (errno != EAGAIN) hasError = true, for the errno e of the failed read
ErrnoCheck(e) == hasError \/ e # "EAGAIN"

\* one iteration of while (::read(...) > 0): an event is read and processed;
\* or the read fails, the loop is left, errno is checked and the lock_guard
\* is released
SamplerRead ==
    /\ ProcessAlive /\ samplerPc = "read"
    /\ IF ReadOutcome = "event"
       THEN LET ev  == Head(devQueue)
                new == ProcessEvent(cfg, ev.js, acceleration, steering)
            IN /\ devQueue' = Tail(devQueue)
               /\ acceleration' = new[1]
               /\ steering' = new[2]
               /\ drained' = Append(drained, [js |-> ev.js, arrived |-> ev.arrived,
                                              at |-> Epoch])
               /\ UNCHANGED <<samplerPc, errno, readFailed, valuesMutex, hasError>>
       ELSE /\ errno' = ReadOutcome
            /\ readFailed' = (readFailed \/ ReadOutcome # "EAGAIN")
            /\ hasError' = ErrnoCheck(errno')
            /\ valuesMutex' = "free"
            /\ samplerPc' = "select"
            /\ UNCHANGED <<devQueue, acceleration, steering, drained>>
    /\ UNCHANGED <<samplerFrame, devGone>>

(***************************************************************************)
(* The OD4Session of libcluon, as far as main uses it.                     *)
(***************************************************************************)
\* od4.send(msg): the message goes out, sent by statement `by`
Od4Send(msg, by) == Append(sent, Message(msg, by))

\* the loop condition of od4.timeTrigger: the delegate is called again while
\* it returns true and no termination has been requested
TimeTriggerContinues == delegateIsRunning /\ ~isTerminated

(***************************************************************************)
(* main.                                                                   *)
(***************************************************************************)
mainFrame == <<cfg, devVars, sharedVars, samplerVars, isTerminated>>

\* a required command line argument is missing: usage, retCode = 1
ArgsMissing ==
    /\ mainPc = "args"
    /\ retCode' = 1
    /\ mainPc' = "return"
    /\ UNCHANGED <<mainFrame, ps3controllerDevice, joinable, od4, ar, sent,
                   delegateIsRunning>>

ArgsPresent ==
    /\ mainPc = "args"
    /\ mainPc' = "open"
    /\ UNCHANGED <<mainFrame, retCode, ps3controllerDevice, joinable, od4, ar, sent,
                   delegateIsRunning>>

\* ::open returns -1: the message is printed, nothing else is done
OpenFails ==
    /\ mainPc = "open"
    /\ ps3controllerDevice' = "failed"
    /\ mainPc' = "return"
    /\ UNCHANGED <<mainFrame, retCode, joinable, od4, ar, sent, delegateIsRunning>>

\* ::open succeeds; the ioctls and fcntl(O_NONBLOCK) follow
OpenSucceeds ==
    /\ mainPc = "open"
    /\ ps3controllerDevice' = "open"
    /\ mainPc' = "thread"
    /\ UNCHANGED <<mainFrame, retCode, joinable, od4, ar, sent, delegateIsRunning>>

\* std::thread ps3controllerReadingThread(...)
StartThread ==
    /\ mainPc = "thread"
    /\ samplerPc' = "select"
    /\ joinable' = TRUE
    /\ mainPc' = "od4"
    /\ UNCHANGED <<cfg, devVars, sharedVars, errno, readFailed, drained, isTerminated,
                   retCode, ps3controllerDevice, od4, ar, sent, delegateIsRunning>>

\* Od4Running with the stop command sent before timeTrigger instead of after
Od4Running_StopFirst ==
    /\ mainPc = "od4"
    /\ od4' = "running"
    /\ ar' = Request(FZero, FZero, TRUE)
    /\ sent' = Od4Send(ar', "stop")
    /\ mainPc' = "delegate"
    /\ UNCHANGED <<mainFrame, retCode, ps3controllerDevice, joinable,
                   delegateIsRunning>>

\* cluon::OD4Session od4{...}; if (od4.isRunning()) is true: timeTrigger
\* calls the delegate
Od4Running ==
    /\ mainPc = "od4"
    /\ od4' = "running"
    /\ mainPc' = "delegate"
    /\ UNCHANGED <<mainFrame, retCode, ps3controllerDevice, joinable, ar, sent,
                   delegateIsRunning>>

\* cluon::OD4Session od4{...}; if (od4.isRunning()) is false: the block is
\* skipped
Od4NotRunning ==
    /\ mainPc = "od4"
    /\ od4' = "down"
    /\ mainPc' = "close"
    /\ UNCHANGED <<mainFrame, retCode, ps3controllerDevice, joinable, ar, sent,
                   delegateIsRunning>>

\* delegate: std::lock_guard<std::mutex> lck(valuesMutex)
TickLock ==
    /\ mainPc = "delegate"
    /\ Len(sent) < MaxTicks
    /\ valuesMutex = "free"
    /\ valuesMutex' = "main"
    /\ mainPc' = "copy"
    /\ UNCHANGED <<cfg, devVars, acceleration, steering, hasError, samplerVars,
                   isTerminated, retCode, ps3controllerDevice, joinable, od4, ar,
                   sent, delegateIsRunning>>

\* TickCopy with the error flag left out of the request: isValid(true)
TickCopy_AlwaysValid ==
    /\ mainPc = "copy"
    /\ ar' = Request(acceleration, steering, TRUE)
    /\ mainPc' = "send"
    /\ UNCHANGED <<mainFrame, retCode, ps3controllerDevice, joinable, od4, sent,
                   delegateIsRunning>>

\* TickCopy with the steering left out of the request
TickCopy_NoSteering ==
    /\ mainPc = "copy"
    /\ ar' = Request(acceleration, ar.steering, ~hasError)
    /\ mainPc' = "send"
    /\ UNCHANGED <<mainFrame, retCode, ps3controllerDevice, joinable, od4, sent,
                   delegateIsRunning>>

\* delegate: ar.acceleration(acceleration).steering(steering).isValid(!hasError)
TickCopy ==
    /\ mainPc = "copy"
    /\ ar' = Request(acceleration, steering, ~hasError)
    /\ mainPc' = "send"
    /\ UNCHANGED <<mainFrame, retCode, ps3controllerDevice, joinable, od4, sent,
                   delegateIsRunning>>

\* TickSend that sends only a request that differs from the last one sent
TickSend_OnlyOnChange ==
    /\ mainPc = "send"
    /\ sent' = IF sent # <<>> /\ sent[Len(sent)].req = ar THEN sent
               ELSE Od4Send(ar, "tick")
    /\ mainPc' = "ret"
    /\ UNCHANGED <<mainFrame, retCode, ps3controllerDevice, joinable, od4, ar,
                   delegateIsRunning>>

\* delegate: od4.send(ar)
TickSend ==
    /\ mainPc = "send"
    /\ sent' = Od4Send(ar, "tick")
    /\ mainPc' = "ret"
    /\ UNCHANGED <<mainFrame, retCode, ps3controllerDevice, joinable, od4, ar,
                   delegateIsRunning>>

\* TickReturn with the delegate always asking to be called again: return true
TickReturn_AlwaysContinue ==
    /\ mainPc = "ret"
    /\ delegateIsRunning' = TRUE
    /\ valuesMutex' = "free"
    /\ mainPc' = "loop"
    /\ UNCHANGED <<cfg, devVars, acceleration, steering, hasError, samplerVars,
                   isTerminated, retCode, ps3controllerDevice, joinable, od4, ar, sent>>

\* delegate: return !hasError, which releases the lock_guard
TickReturn ==
    /\ mainPc = "ret"
    /\ delegateIsRunning' = ~hasError
    /\ valuesMutex' = "free"
    /\ mainPc' = "loop"
    /\ UNCHANGED <<cfg, devVars, acceleration, steering, hasError, samplerVars,
                   isTerminated, retCode, ps3controllerDevice, joinable, od4, ar, sent>>

\* timeTrigger: call the delegate again, or return to main
TimeTriggerLoop ==
    /\ mainPc = "loop"
    /\ mainPc' = IF TimeTriggerContinues THEN "delegate" ELSE "stop"
    /\ UNCHANGED <<mainFrame, retCode, ps3controllerDevice, joinable, od4, ar, sent,
                   delegateIsRunning>>

\* SendStop with the stop command sent only when the loop ended without an
\* error
SendStop_UnlessError ==
    /\ mainPc = "stop"
    /\ IF delegateIsRunning
       THEN ar' = Request(FZero, FZero, TRUE) /\ sent' = Od4Send(ar', "stop")
       ELSE UNCHANGED <<ar, sent>>
    /\ mainPc' = "close"
    /\ UNCHANGED <<mainFrame, retCode, ps3controllerDevice, joinable, od4,
                   delegateIsRunning>>

\* Send stop: ar.acceleration(0).steering(0).isValid(true); od4.send(ar)
SendStop ==
    /\ mainPc = "stop"
    /\ ar' = Request(FZero, FZero, TRUE)
    /\ sent' = Od4Send(ar', "stop")
    /\ mainPc' = "close"
    /\ UNCHANGED <<mainFrame, retCode, ps3controllerDevice, joinable, od4,
                   delegateIsRunning>>

\* ::close(ps3controllerDevice); retCode = 0
CloseDevice ==
    /\ mainPc = "close"
    /\ ps3controllerDevice' = "closed"
    /\ retCode' = 0
    /\ mainPc' = "scope"
    /\ UNCHANGED <<mainFrame, joinable, od4, ar, sent, delegateIsRunning>>

\* the block that owns ps3controllerReadingThread is left: the destructor of
\* a joinable std::thread calls std::terminate
ScopeExit ==
    /\ mainPc = "scope"
    /\ mainPc' = IF joinable THEN "aborted" ELSE "return"
    /\ UNCHANGED <<mainFrame, retCode, ps3controllerDevice, joinable, od4, ar, sent,
                   delegateIsRunning>>

\* return retCode
Return ==
    /\ mainPc = "return"
    /\ mainPc' = "exited"
    /\ UNCHANGED <<mainFrame, retCode, ps3controllerDevice, joinable, od4, ar, sent,
                   delegateIsRunning>>

MainStep ==
    \/ ArgsMissing \/ ArgsPresent \/ OpenFails \/ OpenSucceeds \/ StartThread
    \/ Od4Running \/ Od4NotRunning
    \/ TickLock \/ TickCopy \/ TickSend \/ TickReturn \/ TimeTriggerLoop
    \/ SendStop \/ CloseDevice \/ ScopeExit \/ Return

SamplerStep == SamplerSelect \/ SamplerLock \/ SamplerRead

Next ==
    \/ DeviceEvent \/ DeviceUnplug \/ Terminate
    \/ SamplerStep
    \/ MainStep

Spec == Init /\ [][Next]_vars

(***************************************************************************)
(* The sampler on its own, over a wider range of command lines and         *)
(* js_events: main has started the thread and has not yet reached the      *)
(* publish loop, and the device holds one or two events.                   *)
(***************************************************************************)
\* command lines: the usage example; non-zero minima; quarter values; large
\* ranges; maxima below minima; values that are no multiples of 0.25
MapConfigs ==
    {Config(Q(a[1], a[2]), Q(a[3], a[4]), Q(a[5], a[6]), Q(a[7], a[8]),
            Q(a[9], a[10]), Q(a[11], a[12]), ps4) :
        a \in {<<0, 1, 50, 1, 0, 1, -10, 1, -10, 1, 10, 1>>,
               <<5, 1, 50, 1, -2, 1, -10, 1, -10, 1, 20, 1>>,
               <<1, 4, 51, 4, -1, 2, -29, 4, -7, 2, 7, 2>>,
               <<0, 1, 1000, 1, 0, 1, -1000, 1, -1000, 1, 1000, 1>>,
               <<10, 1, 2, 1, 0, 1, 5, 1, 5, 1, -5, 1>>,
               <<1, 10, 33, 10, -1, 3, -77, 10, -38, 1, 38, 1>>},
        ps4 \in BOOLEAN}

MapTypes ==
    {JS_EVENT_AXIS, JS_EVENT_BUTTON, JS_EVENT_INIT + JS_EVENT_AXIS,
     JS_EVENT_INIT + JS_EVENT_BUTTON}

MapNumbers == {0, 1, 4, 5}

MapValues == {MIN_AXES_VALUE, -16384, -1, 0, 16383, MAX_AXES_VALUE}

MapEvents ==
    {JsEvent(t, n, v) : t \in MapTypes, n \in MapNumbers, v \in MapValues}

\* events that give the shared state non-zero values first
MapPriorEvents(c) ==
    {JsEvent(JS_EVENT_AXIS, 0, 16383), JsEvent(JS_EVENT_AXIS, AccelAxis(c), -16384)}

Pending(js) == [js |-> js, arrived |-> 0]

MapInit ==
    /\ cfg \in MapConfigs
    /\ mainPc = "od4"
    /\ retCode = 0
    /\ ps3controllerDevice = "open"
    /\ devQueue \in {<<Pending(js)>> : js \in MapEvents}
                    \cup {<<Pending(pr), Pending(js)>> :
                              pr \in MapPriorEvents(cfg), js \in MapEvents}
    /\ devGone = FALSE
    /\ valuesMutex = "free"
    /\ acceleration = FZero
    /\ steering = FZero
    /\ hasError = FALSE
    /\ samplerPc = "select"
    /\ joinable = TRUE
    /\ errno = "0"
    /\ od4 = "none"
    /\ ar = Request(FZero, FZero, FALSE)
    /\ sent = <<>>
    /\ delegateIsRunning = TRUE
    /\ isTerminated = FALSE
    /\ readFailed = FALSE
    /\ drained = <<>>

MapNext == SamplerStep \/ DeviceUnplug

MapSpec == MapInit /\ [][MapNext]_vars

(***************************************************************************)
(* The sampler and the publish loop together over a range of command lines *)
(* and raw values: main has started the thread, the device holds one event *)
(* of a tracked axis and produces no further ones.                         *)
(***************************************************************************)
PubConfigs ==
    {c \in MapConfigs :
        \/ c = ExampleConfig(FALSE)
        \/ c.IS_PS4 /\ c.STEERING_MAX = FromInt(20)
        \/ ~c.IS_PS4 /\ c.STEERING_MAX = FromInt(38)
        \/ c.IS_PS4 /\ c.STEERING_MAX = FromInt(-5)}

PubEvents(c) ==
    {JsEvent(JS_EVENT_AXIS, n, v) : n \in {0, AccelAxis(c)}, v \in MapValues}

PubInit ==
    /\ cfg \in PubConfigs
    /\ mainPc = "od4"
    /\ retCode = 0
    /\ ps3controllerDevice = "open"
    /\ devQueue \in {<<Pending(js)>> : js \in PubEvents(cfg)}
    /\ devGone = FALSE
    /\ valuesMutex = "free"
    /\ acceleration = FZero
    /\ steering = FZero
    /\ hasError = FALSE
    /\ samplerPc = "select"
    /\ joinable = TRUE
    /\ errno = "0"
    /\ od4 = "none"
    /\ ar = Request(FZero, FZero, FALSE)
    /\ sent = <<>>
    /\ delegateIsRunning = TRUE
    /\ isTerminated = FALSE
    /\ readFailed = FALSE
    /\ drained = <<>>

PubNext ==
    \/ DeviceUnplug \/ Terminate
    \/ SamplerStep
    \/ Od4Running
    \/ TickLock \/ TickCopy \/ TickSend \/ TickReturn \/ TimeTriggerLoop
    \/ SendStop \/ CloseDevice \/ ScopeExit

PubSpec == PubInit /\ [][PubNext]_vars

\* main is scheduled: a statement of main that can be executed is executed
LiveSpec == Spec /\ WF_vars(MainStep)


(***************************************************************************)
(* Properties.                                                             *)
(***************************************************************************)
\* the neutral command
Neutral == Request(FZero, FZero, TRUE)

Ticks == {i \in 1..Len(sent) : sent[i].by = "tick"}

Stops == {i \in 1..Len(sent) : sent[i].by = "stop"}

InvalidTicks == {i \in Ticks : ~sent[i].req.isValid}

\* main is past the if (od4.isRunning()) block
PastPublishing == mainPc \in {"close", "scope", "aborted"}

\* C1: every command the publish loop sends after a read has failed with an
\* errno other than EAGAIN carries isValid = false, and once main is past the
\* publishing block of a run that sent anything, the last command sent is the
\* neutral command (0, 0, isValid = true).
C1_ErrorPropagation ==
    /\ \A i \in Ticks : sent[i].afterFailure => ~sent[i].req.isValid
    /\ (PastPublishing /\ sent # <<>>) =>
           (sent[Len(sent)].by = "stop" /\ sent[Len(sent)].req = Neutral)

\* C1 witness: a run that ended after a read failure, published non-zero
\* steering with isValid = false after it, and sent the neutral command last.
C1_Witness ==
    /\ mainPc = "aborted" /\ readFailed
    /\ \E i \in Ticks : /\ sent[i].afterFailure /\ ~sent[i].req.isValid
                        /\ sent[i].req.steering # FZero
    /\ sent[Len(sent)].by = "stop" /\ sent[Len(sent)].req = Neutral

\* C2: the stop command is the last message sent: whenever it is among the
\* sent messages it is the neutral command, nothing follows it, and main has
\* left the publish loop.
C2_StopIsLast ==
    \A i \in Stops : /\ i = Len(sent)
                     /\ sent[i].req = Neutral
                     /\ PastPublishing

\* C2 witness: a run ended by a termination request, two ticks, then the stop.
C2_Witness ==
    /\ mainPc = "aborted" /\ isTerminated /\ ~hasError
    /\ Len(sent) = 3 /\ Ticks = {1, 2} /\ Stops = {3}

\* C3 as stated: every run that got as far as opening the device sends the
\* neutral command exactly once.
C3_Original ==
    (~ProcessAlive /\ ps3controllerDevice # "unset") => Cardinality(Stops) = 1

\* C3 amended: the stop command is sent at most once; a run that is past the
\* publishing block has sent it exactly once if the OD4Session was running
\* at the check, whatever ended the loop, and has sent nothing at all if the
\* session was not running or the device could not be opened.
C3_StopOnceIfRunning ==
    /\ Cardinality(Stops) <= 1
    /\ (PastPublishing /\ od4 = "running") => Cardinality(Stops) = 1
    /\ od4 # "running" => sent = <<>>

\* C3 witness: a run whose loop was stopped by the error flag, with its one
\* stop command.
C3_Witness ==
    /\ mainPc = "aborted" /\ od4 = "running" /\ hasError /\ ~isTerminated
    /\ Cardinality(Stops) = 1 /\ InvalidTicks # {}

\* C4: the delegate asks to be called again exactly when the isValid it has
\* just published is true; a tick that publishes isValid = false is the last
\* tick (only the stop command follows it), so at most one such command is
\* published, and the delegate is not entered again after it.
C4_InvalidTickIsLast ==
    /\ mainPc = "loop" => (delegateIsRunning = sent[Len(sent)].req.isValid)
    /\ \A i \in InvalidTicks : \A j \in (i + 1)..Len(sent) : sent[j].by = "stop"
    /\ InvalidTicks # {} => mainPc \notin {"delegate", "copy", "send"}

\* C4 witness: a tick with isValid = true, then one with isValid = false, then
\* the stop command, without any termination request.
C4_Witness ==
    /\ mainPc = "aborted" /\ ~isTerminated
    /\ Len(sent) = 3 /\ Ticks = {1, 2} /\ InvalidTicks = {2}


\* js is an AXIS event of raw axis n
OnAxis(js, n) == StripInit(js.type) = JS_EVENT_AXIS /\ js.number = n

\* the events of raw axis n among the logged events log that satisfy Sel
AxisEvents(log, n, Sel(_)) == SelectSeq(log, LAMBDA ev : OnAxis(ev.js, n) /\ Sel(ev))

ArrivedLastPeriod(ev) == ev.arrived = Len(sent)

DrainedLastPeriod(ev) == ev.at = Len(sent)

\* the events of raw axis n that arrived at the device between the previous
\* tick and the tick that now holds the lock, in order of arrival
ArrivedBetweenTicks(n) ==
    AxisEvents(drained, n, ArrivedLastPeriod) \o AxisEvents(devQueue, n, ArrivedLastPeriod)

\* the events of raw axis n that the sampler processed between the previous
\* tick and the tick that now holds the lock
DrainedBetweenTicks(n) == AxisEvents(drained, n, DrainedLastPeriod)

\* a tick other than the first has copied the shared state and not yet sent
SecondTickCopied == mainPc = "send" /\ Len(sent) >= 1

C6_ValidIffNoReadFailure ==
    /\ [](/\ hasError = readFailed
          /\ (errno = "EAGAIN" /\ ~readFailed) => ~hasError
          /\ \A i \in 1..Len(sent) :
                 (sent[i].afterFailure /\ sent[i].req.isValid) => sent[i].by = "stop")
    /\ [][hasError => hasError']_vars

\* C6 witness: a drain that ended with EAGAIN left the flag false (a tick
\* published the drained steering with isValid = true), and a later read
\* failed with ENODEV and set it.
C6_Witness ==
    /\ hasError /\ errno = "ENODEV"
    /\ \E i \in Ticks : sent[i].req.isValid /\ sent[i].req.steering # FZero

NoTrackedEventDrained ==
    \A k \in 1..Len(drained) :
        ~OnAxis(drained[k].js, 0) /\ ~OnAxis(drained[k].js, AccelAxis(cfg))

\* the request the delegate has just sent
LastSent == sent[Len(sent)]

\* C7 as stated: every tick sends the shared state, and as long as no event
\* of a tracked axis has been processed the command is (0, 0, isValid = true).
C7_Original ==
    mainPc = "ret" =>
        /\ LastSent.req = Request(acceleration, steering, ~hasError)
        /\ NoTrackedEventDrained => LastSent.req = Neutral

\* C7 amended: every tick sends exactly one message, whose acceleration,
\* steering and isValid are the shared acceleration, steering and !hasError
\* at that tick; when no event was processed since the previous tick, the
\* previous acceleration and steering are sent again; as long as no event of
\* a tracked axis has been processed these are 0 and 0, with isValid = true
\* unless a read has failed.
C7_TickPublishesState ==
    /\ [](/\ mainPc = "send" => ar = Request(acceleration, steering, ~hasError)
          /\ mainPc = "ret" =>
                /\ LastSent = [req |-> Request(acceleration, steering, ~hasError),
                               by |-> "tick", afterFailure |-> readFailed]
                /\ (Len(sent) >= 2 /\ \A k \in 1..Len(drained) :
                                          drained[k].at # Len(sent) - 1) =>
                       /\ LastSent.req.acceleration = sent[Len(sent) - 1].req.acceleration
                       /\ LastSent.req.steering = sent[Len(sent) - 1].req.steering
                /\ NoTrackedEventDrained =>
                       LastSent.req = Request(FZero, FZero, ~readFailed))
    /\ [][/\ (mainPc = "send" /\ mainPc' = "ret") => Len(sent') = Len(sent) + 1
          /\ (InPublishLoop /\ ~(mainPc = "send" /\ mainPc' = "ret")) => sent' = sent]_vars

\* C7 witness: the second tick has sent again the non-zero steering of the
\* first, no event having been processed in between.
C7_Witness ==
    /\ mainPc = "ret" /\ Len(sent) = 2
    /\ \A k \in 1..Len(drained) : drained[k].at # 1
    /\ sent[2].req = sent[1].req
    /\ sent[2].req.steering # FZero

\* the error flag is set while the publish loop runs and may still publish
ErrorInLoop == hasError /\ InPublishLoop /\ Len(sent) < MaxTicks

\* the loop has published the shared values with isValid = false
PublishedInvalid ==
    \E i \in InvalidTicks : sent[i].req = Request(acceleration, steering, FALSE)

\* C8 as stated: once hasError is set while the publish loop runs, the loop
\* publishes the values with isValid = false once more and the stop command
\* is sent.
C8_Original == ErrorInLoop ~> (PublishedInvalid /\ Stops # {})

\* C8 amended: once hasError is set while the publish loop runs, the loop
\* ends and the stop command is sent; before it the loop has published the
\* shared values with isValid = false, unless a termination request ended
\* the loop first.
C8_ErrorEndsLoop ==
    ErrorInLoop ~> (Stops # {} /\ PastPublishing /\ (PublishedInvalid \/ isTerminated))

\* C8 witness: the loop ended on the error flag alone, after publishing
\* non-zero steering with isValid = false, and the stop command was sent.
C8_Witness ==
    /\ PastPublishing /\ Stops # {} /\ ~isTerminated
    /\ PublishedInvalid /\ steering # FZero

\* C9: when the device cannot be opened, neither the sampler thread nor the
\* OD4Session and its publish loop are started, nothing is sent, and the
\* process exits with a non-zero status.
C9_OpenFailure ==
    ps3controllerDevice = "failed" =>
        /\ samplerPc = "unborn" /\ od4 = "none" /\ sent = <<>>
        /\ mainPc = "exited" => retCode # 0


Always(ev) == TRUE

\* the AXIS events of the right analog stick processed so far
AccelEvents == AxisEvents(drained, AccelAxis(cfg), Always)

\* the raw value of the last of them
LastAccelValue == AccelEvents[Len(AccelEvents)].js.value

\* x is a multiple of 0.25 of magnitude at most 1000
QuarterValue(x) ==
    /\ Roundf(FMul(F4, x)) = FMul(F4, x)
    /\ ~FLess(FromInt(1000), x) /\ ~FLess(x, FromInt(-1000))

QuarterRanges ==
    /\ QuarterValue(cfg.ACCELERATION_MIN) /\ QuarterValue(cfg.ACCELERATION_MAX)
    /\ QuarterValue(cfg.DECELERATION_MIN) /\ QuarterValue(cfg.DECELERATION_MAX)

SteeringEvents == AxisEvents(drained, 0, Always)

\* the raw value of the last of them
LastSteeringValue == SteeringEvents[Len(SteeringEvents)].js.value

\* C11: for every command line, the steering computed for the raw value
\* -32768 is steering_max and the one computed for 32767 is steering_min,
\* after the negation and before the rounding to steps of 0.25 (the value
\* written is its quantisation).
C11_FullDeflection ==
    SteeringEvents # <<>> =>
        /\ steering = Quantize(SteeringRaw(cfg, LastSteeringValue))
        /\ LastSteeringValue = MIN_AXES_VALUE =>
               SteeringRaw(cfg, LastSteeringValue) = cfg.STEERING_MAX
        /\ LastSteeringValue = MAX_AXES_VALUE =>
               SteeringRaw(cfg, LastSteeringValue) = cfg.STEERING_MIN


\* q is an integer multiple of 0.25
Step025(q) == Roundf(FMul(F4, q)) = FMul(F4, q)

\* q is not strictly between -0.001 and 0.001, or it is (positive) zero
ZeroSnapped(q) == (FLess(q, F0001) /\ FLess(FNeg(F0001), q)) => q = FZero

\* q is round(4x)/4, as positive zero when that is zero
RoundedFrom(x, q) ==
    LET r == FDiv(Roundf(FMul(F4, x)), F4)
    IN IF IsZero(r) THEN q = FZero ELSE q = r

\* every acceleration and steering held in the shared state, in the request
\* under construction or in a message sent
HeldValues ==
    {acceleration, steering, ar.acceleration, ar.steering}
        \cup {sent[i].req.acceleration : i \in 1..Len(sent)}
        \cup {sent[i].req.steering : i \in 1..Len(sent)}

\* C12: every acceleration and steering in the shared state and in every
\* message sent is an integer multiple of 0.25 and, when it lies strictly
\* between -0.001 and 0.001, is positive zero; the shared steering and
\* acceleration are round(4x)/4 of the unquantised value x mapped from the
\* last event of their axis.
C12_Quantized ==
    /\ \A q \in HeldValues : Step025(q) /\ ZeroSnapped(q)
    /\ SteeringEvents # <<>> =>
           RoundedFrom(SteeringRaw(cfg, LastSteeringValue), steering)
    /\ AccelEvents # <<>> =>
           RoundedFrom(AccelerationRaw(cfg, LastAccelValue), acceleration)

\* C12 witness: the steering mapped from the last steering event rounds to
\* negative zero, and a tick has published it as positive zero, valid, after
\* the event was processed.
C12_Witness ==
    /\ SteeringEvents # <<>>
    /\ FDiv(Roundf(FMul(F4, SteeringRaw(cfg, LastSteeringValue))), F4) = FNegZero
    /\ steering = FZero
    /\ mainPc = "ret" /\ LastSent.req = Request(FZero, FZero, TRUE)
    /\ LastSent.by = "tick"


\* the sampler takes a step
SamplerMoves == samplerPc' # samplerPc \/ drained' # drained \/ errno' # errno

\* main takes a step
MainMoves == mainPc' # mainPc

\* the delegate is between its lock_guard and its return
InDelegate == mainPc \in {"copy", "send", "ret"}

\* the accesses of the delegate, which reads acceleration, steering and
\* hasError for the request and hasError for its result, and the reads and
\* writes of the sampler's drain, are made under valuesMutex; the two never
\* overlap
LockedAccesses ==
    /\ [][/\ (MainMoves /\ mainPc \in {"copy", "ret"}) => valuesMutex = "main"
          /\ (SamplerMoves /\ samplerPc = "read") => valuesMutex = "sampler"
          /\ (acceleration' # acceleration \/ steering' # steering
                  \/ hasError' # hasError) =>
                 (SamplerMoves /\ samplerPc = "read" /\ valuesMutex = "sampler")]_vars
    /\ [](/\ InDelegate <=> valuesMutex = "main"
          /\ samplerPc = "read" <=> valuesMutex = "sampler"
          /\ ~(InDelegate /\ samplerPc = "read"))

\* C13 as stated: every access of the sampler and of the publish loop to
\* acceleration, steering and hasError is made under valuesMutex, the
\* sampler's test of hasError in its loop condition included.
C13_Original ==
    /\ LockedAccesses
    /\ [][(SamplerMoves /\ samplerPc = "select") => valuesMutex = "sampler"]_vars

\* C13 amended: every write of acceleration, steering and hasError, every
\* read of the drain and every read of the publish loop is made under
\* valuesMutex, and a drain never overlaps a tick; the sampler tests
\* hasError in its loop condition without the mutex, and only the sampler
\* itself ever writes hasError.
C13_MutualExclusion ==
    /\ LockedAccesses
    /\ [][(SamplerMoves /\ samplerPc = "select") => valuesMutex # "sampler"]_vars

\* C13 witness: an event is pending and the sampler waits for the mutex
\* that a tick holds.
C13_Witness ==
    /\ samplerPc = "lock" /\ devQueue # <<>>
    /\ mainPc = "copy" /\ valuesMutex = "main"


\* C14: on every tick the delegate takes the lock, copies the shared values
\* into the request, releases the lock and only then sends: valuesMutex is
\* not held while od4.send runs.
C14_SendOutsideLock ==
    [][/\ (mainPc = "delegate" /\ mainPc' = "copy") => valuesMutex' = "main"
       /\ (mainPc = "copy" /\ MainMoves) => (valuesMutex = "main" /\ mainPc' = "send")
       /\ (mainPc = "send" /\ MainMoves) =>
              (valuesMutex = "free" /\ Len(sent') = Len(sent) + 1)]_vars


\* C15: after a read has failed with an errno other than EAGAIN, hasError
\* is set and stays set, the sampler leaves its loop without another select
\* or read, acceleration and steering never change again, no further event
\* is taken from the device, and the descriptor is never opened again.
C15_ErroredIsTerminal ==
    /\ [](readFailed => (hasError /\ samplerPc \in {"select", "done"}))
    /\ [][readFailed =>
            /\ readFailed' /\ hasError'
            /\ acceleration' = acceleration /\ steering' = steering
            /\ drained' = drained /\ devQueue' = devQueue
            /\ samplerPc = "select" => samplerPc' \in {"select", "done"}
            /\ samplerPc = "done" => samplerPc' = "done"
            /\ ps3controllerDevice' \in {ps3controllerDevice, "closed"}]_vars

\* C15 witness: the sampler has left its loop after a failed read, with an
\* event still unread in the device and the device still open.
C15_Witness ==
    /\ samplerPc = "done" /\ readFailed /\ hasError
    /\ devQueue # <<>> /\ ps3controllerDevice = "open"


\* the sampler reads and processes the js_event at the head of the device
EventProcessed == drained' = Append(drained, [js |-> Head(devQueue).js,
                                               arrived |-> Head(devQueue).arrived,
                                               at |-> Epoch])

\* C16: processing an event of the left analog stick leaves acceleration
\* unchanged, processing an event of the right analog stick leaves steering
\* unchanged, and neither changes hasError.
C16_OtherAxisUnchanged ==
    [][(devQueue # <<>> /\ EventProcessed) =>
           LET js == Head(devQueue).js
           IN /\ OnAxis(js, 0) => (acceleration' = acceleration /\ hasError' = hasError)
              /\ OnAxis(js, AccelAxis(cfg)) =>
                     (steering' = steering /\ hasError' = hasError)]_vars

\* C16 witness: a right stick event set a non-zero acceleration, then a left
\* stick event was processed that set a non-zero steering, and the
\* acceleration is still the one of the right stick event.
C16_Witness ==
    /\ Len(drained) = 2
    /\ OnAxis(drained[1].js, AccelAxis(cfg)) /\ OnAxis(drained[2].js, 0)
    /\ acceleration # FZero /\ steering # FZero
    /\ acceleration = AccelerationOf(cfg, drained[1].js.value)
    /\ ~hasError


\* the js_event carries the JS_EVENT_INIT flag
InitFlagged(js) == js.type >= JS_EVENT_INIT

\* C17: every event of type JS_EVENT_BUTTON and every event that carries
\* JS_EVENT_INIT is taken from the device and leaves acceleration, steering
\* and hasError unchanged, whatever its number and value, also when it is an
\* INIT-flagged event of a tracked axis.
C17_ButtonInitIgnored ==
    [][(devQueue # <<>> /\ EventProcessed) =>
           LET js == Head(devQueue).js
           IN (js.type = JS_EVENT_BUTTON \/ InitFlagged(js)) =>
                  /\ devQueue' = Tail(devQueue)
                  /\ acceleration' = acceleration /\ steering' = steering
                  /\ hasError' = hasError]_vars

\* C18: the command line, and with it IS_PS4, never changes; an event of
\* type JS_EVENT_AXIS with number 0 sets the steering in both families, one
\* with number 4 without IS_PS4, or 5 with it, sets the acceleration, and
\* one with any other number, the other family's 5 or 4 included, changes
\* neither acceleration nor steering nor hasError.
C18_AxisRoles ==
    [][/\ cfg' = cfg
       /\ (devQueue # <<>> /\ EventProcessed /\ Head(devQueue).js.type = JS_EVENT_AXIS) =>
              LET js  == Head(devQueue).js
                  acc == IF cfg.IS_PS4 THEN 5 ELSE 4
              IN /\ js.number = 0 =>
                     (steering' = SteeringOf(cfg, js.value) /\ acceleration' = acceleration)
                 /\ js.number = acc =>
                     (acceleration' = AccelerationOf(cfg, js.value) /\ steering' = steering)
                 /\ js.number \notin {0, acc} =>
                     (acceleration' = acceleration /\ steering' = steering)
                 /\ hasError' = hasError]_vars

\* C18 witness: with IS_PS4, an event on axis 5 set a non-zero acceleration
\* and a following full-pull event on axis 4 left it as it was.
C18_Witness ==
    /\ cfg.IS_PS4 /\ Len(drained) = 2
    /\ drained[1].js = JsEvent(JS_EVENT_AXIS, 5, -16384)
    /\ drained[2].js = JsEvent(JS_EVENT_AXIS, 4, MIN_AXES_VALUE)
    /\ acceleration = AccelerationOf(cfg, -16384) /\ acceleration # FZero
    /\ steering = FZero

\* C19: after the publish loop has ended, by an error or by a termination
\* request, and the stop command is sent, the device is closed and the scope
\* of the thread object left only after the sampler has left its loop and
\* has been joined; the process is not aborted, and it exits with status 0.
C19_JoinedBeforeClose ==
    Stops # {} =>
        /\ ps3controllerDevice = "closed" => (samplerPc = "done" /\ ~joinable)
        /\ mainPc \in {"return", "exited", "aborted"} =>
               (samplerPc = "done" /\ ~joinable)
        /\ mainPc # "aborted"
        /\ mainPc = "exited" => retCode = 0

====
